---------------------------- MODULE Spec2Model ----------------------------
(***************************************************************************)
(* A model of flight370.py: the ADS-B (DF17) frame encoder (crc24, CPR     *)
(* position encoding, altitude encoding, the two frame builders) and the   *)
(* aircraft generator / update / reporting loop that feeds it.             *)
(*                                                                         *)
(* Number representation.  The program computes with Python ints           *)
(* (unbounded) and IEEE-754 doubles.  The model uses:                      *)
(*   - integers for ints and bytes;                                        *)
(*   - angles in units of 1/10000 degree (field v).  A latitude is a       *)
(*     record [v, u]: the double nearest to v/10000 degrees moved by u     *)
(*     units in the last place (u = 0 for a grid value), so that doubles   *)
(*     adjacent to a comparison constant of the code can be told apart.    *)
(*     A longitude is a record [v, exp]: exp = 0 is v/10000 degrees,       *)
(*     exp >= 63 is the double v * 2^exp degrees, whose neighbours are at  *)
(*     least 1024 apart;                                                   *)
(*   - altitudes in units of 1/6 foot, so that the ties of the 25 ft       *)
(*     rounding (12.5 ft) and the per-second climb of the generator's      *)
(*     rates (multiples of 100 ft/min = 10 units per second) are exact;    *)
(*   - strings as sequences of one-character strings.                      *)
(***************************************************************************)
EXTENDS Integers, Sequences, FiniteSets, TLC

\* src/flight370.py:19
NZ == 15
\* src/flight370.py:25  (0x1FFF409)
GENERATOR == 33551369

(***************************************************************************)
(* Python's integer operators.  >> and & on negative ints act on the       *)
(* infinite two's complement, which floor division and the non-negative    *)
(* remainder reproduce.                                                    *)
(***************************************************************************)
Shl(x, k) == x * (2 ^ k)
Shr(x, k) == x \div (2 ^ k)

RECURSIVE BitAnd(_, _)
BitAnd(a, b) ==
    IF b = 0 THEN 0
    ELSE (a % 2) * (b % 2) + 2 * BitAnd(a \div 2, b \div 2)

RECURSIVE BitOr(_, _)
BitOr(a, b) ==
    IF a = 0 THEN b
    ELSE IF b = 0 THEN a
    ELSE (IF a % 2 = 1 \/ b % 2 = 1 THEN 1 ELSE 0) + 2 * BitOr(a \div 2, b \div 2)

RECURSIVE BitXor(_, _)
BitXor(a, b) ==
    IF a = 0 THEN b
    ELSE IF b = 0 THEN a
    ELSE ((a + b) % 2) + 2 * BitXor(a \div 2, b \div 2)

\* x & (1 << k), as 0 or 1
Bit(x, k) == (x \div (2 ^ k)) % 2

Abs(x) == IF x < 0 THEN -x ELSE x
Min(a, b) == IF a < b THEN a ELSE b
Max(a, b) == IF a > b THEN a ELSE b
\* int(x) of a quotient: truncation toward zero
TruncDiv(a, b) == IF a >= 0 THEN a \div b ELSE -((-a) \div b)

(***************************************************************************)
(* crc24 (lines 21-35)                                                     *)
(***************************************************************************)
\* a round with the OpenPGP polynomial 0x1864CFB in place of GENERATOR
crc24_round_openpgp(crc) ==
    LET s == Shl(crc, 1)
    IN  IF Bit(s, 24) # 0 THEN BitXor(s, 25578747) ELSE s

\* lines 31-33: one round, shift left and XOR the generator when bit 24 is set
crc24_round(crc) ==
    LET s == Shl(crc, 1)
    IN  IF Bit(s, 24) # 0 THEN BitXor(s, GENERATOR) ELSE s

\* line 30: for _ in range(8).  (The accumulator is bound through a singleton
\* set so that it is a value before the next round starts.)
RECURSIVE crc24_rounds(_, _)
crc24_rounds(crc, k) ==
    IF k = 0 THEN crc
    ELSE CHOOSE r \in { crc24_rounds(c, k - 1) : c \in { crc24_round(crc) } } : TRUE

\* lines 28-29: the loop over the bytes
RECURSIVE crc24_bytes(_, _)
crc24_bytes(crc, msg) ==
    IF msg = <<>> THEN crc
    ELSE CHOOSE r \in { crc24_bytes(c, Tail(msg)) :
                          c \in { crc24_rounds(BitXor(crc, Shl(Head(msg), 16)), 8) } } : TRUE

crc24(msg) == BitAnd(crc24_bytes(0, msg), 16777215)

(***************************************************************************)
(* Strings: int(icao_hex, 16), binascii.hexlify, str.upper                 *)
(***************************************************************************)
LowerHex == <<"0", "1", "2", "3", "4", "5", "6", "7", "8", "9",
              "a", "b", "c", "d", "e", "f">>
UpperHex == <<"0", "1", "2", "3", "4", "5", "6", "7", "8", "9",
              "A", "B", "C", "D", "E", "F">>

\* the value of a hexadecimal digit in either case, -1 for any other character
HexVal(c) ==
    IF \E i \in 1..16 : LowerHex[i] = c THEN (CHOOSE i \in 1..16 : LowerHex[i] = c) - 1
    ELSE IF \E i \in 1..16 : UpperHex[i] = c THEN (CHOOSE i \in 1..16 : UpperHex[i] = c) - 1
    ELSE -1

RECURSIVE StripLeft(_)
StripLeft(s) == IF s # <<>> /\ Head(s) = " " THEN StripLeft(Tail(s)) ELSE s
RECURSIVE StripRight(_)
StripRight(s) ==
    IF s # <<>> /\ s[Len(s)] = " " THEN StripRight(SubSeq(s, 1, Len(s) - 1)) ELSE s

\* the digits of a literal: hexadecimal digits, single underscores between them
DigitsOk(d) ==
    /\ d # <<>>
    /\ \A i \in 1..Len(d) : HexVal(d[i]) >= 0 \/ d[i] = "_"
    /\ d[1] # "_" /\ d[Len(d)] # "_"
    /\ \A i \in 1..(Len(d) - 1) : ~(d[i] = "_" /\ d[i + 1] = "_")

RECURSIVE DigitsValue(_, _)
DigitsValue(acc, d) ==
    IF d = <<>> THEN acc
    ELSE DigitsValue(IF Head(d) = "_" THEN acc ELSE 16 * acc + HexVal(Head(d)), Tail(d))

\* int(s, 16): surrounding blanks, a sign, a 0x prefix (which an underscore may
\* follow), digits.  [ok |-> FALSE] is ValueError.
ParseInt16(s) ==
    LET t == StripRight(StripLeft(s))
        signed == t # <<>> /\ Head(t) \in {"+", "-"}
        neg == t # <<>> /\ Head(t) = "-"
        b == IF signed THEN Tail(t) ELSE t
        prefixed == Len(b) >= 2 /\ b[1] = "0" /\ b[2] \in {"x", "X"}
        p == IF prefixed THEN SubSeq(b, 3, Len(b)) ELSE b
        d == IF prefixed /\ p # <<>> /\ Head(p) = "_" THEN Tail(p) ELSE p
    IN  IF DigitsOk(d)
        THEN [ok |-> TRUE, val |-> IF neg THEN -DigitsValue(0, d) ELSE DigitsValue(0, d)]
        ELSE [ok |-> FALSE, val |-> 0]

\* lines 133-137 (and 194-198): the ICAO argument, a str or an int
IcaoStr(s) == [isstr |-> TRUE, s |-> s, n |-> 0]
IcaoInt(n) == [isstr |-> FALSE, s |-> <<>>, n |-> n]
icao_to_int(icao_hex) ==
    IF icao_hex.isstr THEN ParseInt16(icao_hex.s) ELSE [ok |-> TRUE, val |-> icao_hex.n]

RECURSIVE hexlify(_)
hexlify(msg) ==
    IF msg = <<>> THEN <<>>
    ELSE <<LowerHex[(Head(msg) \div 16) + 1], LowerHex[(Head(msg) % 16) + 1]>>
         \o hexlify(Tail(msg))

upper(s) ==
    [i \in 1..Len(s) |->
        IF \E k \in 11..16 : LowerHex[k] = s[i]
        THEN UpperHex[CHOOSE k \in 11..16 : LowerHex[k] = s[i]]
        ELSE s[i]]

\* the frame without .upper()
avr_format_lower(msg) == <<"*">> \o hexlify(msg) \o <<";">>

\* lines 176-178 (and 248-250): f"*{hex_msg};"
avr_format(msg) == <<"*">> \o upper(hexlify(msg)) \o <<";">>

(***************************************************************************)
(* CPR encoding (lines 37-109)                                             *)
(***************************************************************************)
\* angles: units per degree
Deg(d) == d * 10000

Lat(v) == [v |-> v, u |-> 0]
Lon(v) == [v |-> v, exp |-> 0]

\* comparisons of a latitude with a whole number of degrees
LatEq(lat, d) == lat.v = Deg(d) /\ lat.u = 0
LatGt(lat, d) == lat.v > Deg(d) \/ (lat.v = Deg(d) /\ lat.u > 0)
LatLt(lat, d) == lat.v < Deg(d) \/ (lat.v = Deg(d) /\ lat.u < 0)

\* comparisons of a longitude with a whole number of degrees
LonLt(lon, d) == IF lon.exp = 0 THEN lon.v < Deg(d) ELSE lon.v < 0
LonGe(lon, d) == ~LonLt(lon, d)

\* lon += d in double arithmetic: exact on the grid; for |lon| >= 2^63 the
\* neighbouring doubles are at least 1024 apart, so adding or subtracting 360
\* rounds back to lon itself
FloatAdd(lon, d) == IF lon.exp = 0 THEN [lon EXCEPT !.v = @ + Deg(d)] ELSE lon

\* NLThreshold[n - 1], n = 2..59: the largest grid latitude at which lines 53-57
\* evaluate to at least n (they evaluate to n zones exactly between
\* NLThreshold[n] and NLThreshold[n - 1]); 87 degrees is where the argument of
\* acos reaches -1
NLThreshold ==
    <<870000, 865353, 857554, 848916, 839917, 830719, 821395, 811980, 802492,
      792942, 783337, 773678, 763968, 754205, 744389, 734517, 724588, 714598,
      704545, 694424, 684232, 673964, 663617, 653184, 642661, 632042, 621321,
      610491, 599545, 588476, 577274, 565931, 554437, 542781, 530951, 518934,
      506715, 494277, 481603, 468673, 455462, 441945, 428091, 413865, 399225,
      384124, 368502, 352289, 335399, 317720, 299113, 279389, 258292, 235450,
      210293, 181862, 148281, 104704>>

\* lines 53-55: at the double next to 87 (or -87) on the side of zero,
\* tmp = (1 - cos(pi/30)) / cos(pi*lat/180)^2 is rounded to a value above 2.0
\* and acos(1.0 - tmp) raises ValueError (math domain error); two or more
\* doubles away it is at most 2.0
acos_domain_error(lat) ==
    \/ lat.v = Deg(87) /\ lat.u = -1
    \/ lat.v = -Deg(87) /\ lat.u = 1

\* lines 41-57.  [err |-> "ValueError"] is the exception of math.acos
cprNL(lat) ==
    IF LatEq(lat, 0) THEN [err |-> "none", val |-> 59]
    ELSE IF LatEq(lat, 87) \/ LatEq(lat, -87) THEN [err |-> "none", val |-> 2]
    ELSE IF LatGt(lat, 87) \/ LatLt(lat, -87) THEN [err |-> "none", val |-> 1]
    ELSE IF acos_domain_error(lat) THEN [err |-> "ValueError", val |-> 0]
    ELSE [err |-> "none",
          val |-> 1 + Cardinality({k \in 1..58 : Abs(lat.v) <= NLThreshold[k]})]

\* a zone size in degrees is the rational num / den
\* lines 59-61
cprDlat(cprEncType) == [num |-> 360, den |-> 4 * NZ - cprEncType]

\* lines 63-68
cprDlon(lat, cprEncType) ==
    LET nl == cprNL(lat)
    IN  IF nl.err # "none" THEN [err |-> nl.err, num |-> 0, den |-> 1]
        ELSE IF nl.val = 0 THEN [err |-> "none", num |-> 0, den |-> 1]
        ELSE [err |-> "none", num |-> 360, den |-> Max(1, nl.val - cprEncType)]

\* whether 360.0 / k is exactly 360/k: the odd part of k divides 45
exact_double(k) == (360 * 64) % k = 0

\* floor(2**17 * ((x % d) / d)) for x in grid units and d = num/den degrees,
\* d # 0, as the set of values double arithmetic can give.  x % d is Python's
\* remainder, non-negative for a positive divisor:
\* (x % d) / d = ((x * den) mod (num * 10000)) / (num * 10000),
\* and its product with 2^17 is formed in two steps of 9 and 8 bits.
\* Off a zone-fraction boundary the doubles give the exact floor e.  On one
\* (2^17 * (x % d) / d an integer), when 360.0 / den is a rounded quotient or
\* the argument is off the grid (u # 0), the rounding decides between e and the
\* value before it (131071 before 0).
cpr_index(x, u, d) ==
    LET m == Deg(d.num)
        r == (x * d.den) % m
        q1 == (r * 512) \div m
        r1 == (r * 512) % m
        e == q1 * 256 + ((r1 * 256) \div m)
    IN  IF (r1 * 256) % m = 0 /\ (u # 0 \/ (x # 0 /\ ~exact_double(d.den)))
        THEN {e, (e - 1) % 131072}
        ELSE {e}

\* line 83
clamp_lat(lat) ==
    IF LatGt(lat, 90) THEN Lat(Deg(90))
    ELSE IF LatLt(lat, -90) THEN Lat(-Deg(90))
    ELSE lat

\* lines 91-109, after the normalisation loops: the set of outcomes.  err is
\* the exception raised: ValueError from cprNL, ZeroDivisionError from
\* lon % dlon when dlon = 0
cpr_encode(lat, lon, is_odd) ==
    LET cprEncType == IF is_odd THEN 1 ELSE 0
        dlat == cprDlat(cprEncType)
        dlon == cprDlon(lat, cprEncType)
    IN  IF dlon.err # "none" THEN {[err |-> dlon.err, lat_cpr |-> 0, lon_cpr |-> 0]}
        ELSE IF dlon.num = 0
             THEN {[err |-> "ZeroDivisionError", lat_cpr |-> 0, lon_cpr |-> 0]}
        ELSE {[err |-> "none",
               lat_cpr |-> BitAnd(yz, 131071),
               lon_cpr |-> BitAnd(xz, 131071)] :
                  yz \in cpr_index(lat.v, lat.u, dlat), xz \in cpr_index(lon.v, 0, dlon)}

(***************************************************************************)
(* Altitude encoding (lines 111-127); altitudes in units of 1/6 foot       *)
(***************************************************************************)
Feet(f) == f * 6

\* round(x / 25.0): Python rounds a tie to the even integer
\* rounding towards minus infinity in place of round()
round25_floor(alt) == alt \div Feet(25)

round25(alt) ==
    LET q == alt \div Feet(25)
        r == alt % Feet(25)
    IN  IF 2 * r < Feet(25) THEN q
        ELSE IF 2 * r > Feet(25) THEN q + 1
        ELSE IF q % 2 = 0 THEN q ELSE q + 1

encode_altitude(altitude_ft) ==
    LET rounded_ft == round25(altitude_ft) * 25
        n == TruncDiv(rounded_ft, 25)
        q_bit == 1
    IN  BitOr(BitAnd(n, 2047), Shl(q_bit, 11))

(***************************************************************************)
(* Frame builders (lines 129-250)                                          *)
(***************************************************************************)
\* lines 143-148 (and 204-209): DF17/CA5 and the ICAO address
header(icao_int) ==
    <<141,
      BitAnd(Shr(icao_int, 16), 255),
      BitAnd(Shr(icao_int, 8), 255),
      BitAnd(icao_int, 255)>>

\* a payload whose byte 6 takes the parity flag at bit 3 and the Time bit at
\* bit 2
position_payload_swapped(alt_encoded, lat_cpr, lon_cpr, is_odd) ==
    LET f_flag == IF is_odd THEN 1 ELSE 0
    IN  <<88,
          BitAnd(Shr(alt_encoded, 4), 255),
          BitOr(BitOr(BitOr(Shl(BitAnd(alt_encoded, 15), 4), Shl(f_flag, 3)), Shl(0, 2)),
                BitAnd(Shr(lat_cpr, 15), 3)),
          BitAnd(Shr(lat_cpr, 7), 255),
          BitOr(Shl(BitAnd(lat_cpr, 127), 1), BitAnd(Shr(lon_cpr, 16), 1)),
          BitAnd(Shr(lon_cpr, 8), 255),
          BitAnd(lon_cpr, 255)>>

\* lines 151-168: bytes 4-10 of an airborne position message (msg[4..10])
position_payload(alt_encoded, lat_cpr, lon_cpr, is_odd) ==
    LET f_flag == IF is_odd THEN 1 ELSE 0
    IN  <<88,
          BitAnd(Shr(alt_encoded, 4), 255),
          BitOr(BitOr(BitOr(Shl(BitAnd(alt_encoded, 15), 4), Shl(0, 3)), Shl(f_flag, 2)),
                BitAnd(Shr(lat_cpr, 15), 3)),
          BitAnd(Shr(lat_cpr, 7), 255),
          BitOr(Shl(BitAnd(lat_cpr, 127), 1), BitAnd(Shr(lon_cpr, 16), 1)),
          BitAnd(Shr(lon_cpr, 8), 255),
          BitAnd(lon_cpr, 255)>>

\* a trailer with the least significant byte first
append_crc_little_endian(msg) ==
    LET crc == crc24(msg)
    IN  msg \o <<BitAnd(crc, 255), BitAnd(Shr(crc, 8), 255), BitAnd(Shr(crc, 16), 255)>>

\* lines 170-174 (and 242-246): the big-endian CRC trailer
append_crc(msg) ==
    LET crc == crc24(msg)
    IN  msg \o <<BitAnd(Shr(crc, 16), 255), BitAnd(Shr(crc, 8), 255), BitAnd(crc, 255)>>

\* math.sin / math.cos of math.radians(heading) for the headings the model
\* draws: sgn is the sign of the double (0 for 0.0; the doubles for cos 90,
\* sin 180 and cos 270 are about 1e-16, not 0), mag is int(abs(value) * 10^6)
sin_deg(heading) ==
    CASE heading = 0   -> [sgn |-> 0,  mag |-> 0]
      [] heading = 30  -> [sgn |-> 1,  mag |-> 499999]
      [] heading = 90  -> [sgn |-> 1,  mag |-> 1000000]
      [] heading = 135 -> [sgn |-> 1,  mag |-> 707106]
      [] heading = 180 -> [sgn |-> 1,  mag |-> 0]
      [] heading = 225 -> [sgn |-> -1, mag |-> 707106]
      [] heading = 270 -> [sgn |-> -1, mag |-> 1000000]
cos_deg(heading) ==
    CASE heading = 0   -> [sgn |-> 1,  mag |-> 1000000]
      [] heading = 30  -> [sgn |-> 1,  mag |-> 866025]
      [] heading = 90  -> [sgn |-> 1,  mag |-> 0]
      [] heading = 135 -> [sgn |-> -1, mag |-> 707106]
      [] heading = 180 -> [sgn |-> -1, mag |-> 1000000]
      [] heading = 225 -> [sgn |-> -1, mag |-> 707106]
      [] heading = 270 -> [sgn |-> -1, mag |-> 0]

Sign(x) == IF x > 0 THEN 1 ELSE IF x < 0 THEN -1 ELSE 0

\* lines 216-217: speed_knots * t, as its sign and int(abs(.))
component(speed_knots, t) ==
    [sgn |-> Sign(speed_knots) * t.sgn,
     int_abs |-> (Abs(speed_knots) * t.mag) \div 1000000]
east_west(speed_knots, heading) == component(speed_knots, sin_deg(heading))
north_south(speed_knots, heading) == component(speed_knots, cos_deg(heading))

\* a payload whose magnitudes are not limited by min()
velocity_payload_unclamped(speed_knots, heading, vertical_rate) ==
    LET ew == east_west(speed_knots, heading)
        ns == north_south(speed_knots, heading)
        ew_sign == IF ew.sgn >= 0 THEN 0 ELSE 1
        ew_value == ew.int_abs
        ns_sign == IF ns.sgn >= 0 THEN 0 ELSE 1
        ns_value == ns.int_abs
        vr_sign == IF vertical_rate >= 0 THEN 0 ELSE 1
        vr_value == Abs(vertical_rate) \div 64
    IN  <<153,
          1,
          BitOr(Shl(ew_sign, 7), BitAnd(Shr(ew_value, 3), 127)),
          BitOr(Shl(BitAnd(ew_value, 7), 5),
                BitOr(Shl(ns_sign, 4), BitAnd(Shr(ns_value, 6), 15))),
          BitOr(Shl(BitAnd(ns_value, 63), 2), BitOr(Shl(vr_sign, 1), Shr(vr_value, 8))),
          BitAnd(vr_value, 255),
          0>>

\* lines 212-240: bytes 4-10 of an airborne velocity message
velocity_payload(speed_knots, heading, vertical_rate) ==
    LET ew == east_west(speed_knots, heading)
        ns == north_south(speed_knots, heading)
        ew_sign == IF ew.sgn >= 0 THEN 0 ELSE 1
        ew_value == Min(1023, ew.int_abs)
        ns_sign == IF ns.sgn >= 0 THEN 0 ELSE 1
        ns_value == Min(1023, ns.int_abs)
        vr_sign == IF vertical_rate >= 0 THEN 0 ELSE 1
        vr_value == Min(511, Abs(vertical_rate) \div 64)
    IN  <<153,
          1,
          BitOr(Shl(ew_sign, 7), BitAnd(Shr(ew_value, 3), 127)),
          BitOr(Shl(BitAnd(ew_value, 7), 5),
                BitOr(Shl(ns_sign, 4), BitAnd(Shr(ns_value, 6), 15))),
          BitOr(Shl(BitAnd(ns_value, 63), 2), BitOr(Shl(vr_sign, 1), Shr(vr_value, 8))),
          BitAnd(vr_value, 255),
          0>>

\* what a call leaves behind: the value returned or the exception raised,
\* with the locals the frame was built from
NoRet == [err |-> "none", val |-> 0, lat_cpr |-> 0, lon_cpr |-> 0,
          msg |-> <<>>, text |-> <<>>]
Raise(e) == [NoRet EXCEPT !.err = e]

\* a bytearray element must be in range(0, 256)
frame_of(msg) ==
    IF \E i \in 1..Len(msg) : msg[i] < 0 \/ msg[i] > 255 THEN Raise("ValueError")
    ELSE LET full == append_crc(msg)
         IN  [NoRet EXCEPT !.msg = full, !.text = avr_format(full)]

\* lines 139-178, once the ICAO address is an int and the position is encoded
position_frame(icao_int, altitude, cpr, is_odd) ==
    LET r == frame_of(header(icao_int)
                      \o position_payload(encode_altitude(altitude),
                                          cpr.lat_cpr, cpr.lon_cpr, is_odd))
    IN  [r EXCEPT !.val = encode_altitude(altitude),
                  !.lat_cpr = cpr.lat_cpr, !.lon_cpr = cpr.lon_cpr]

\* lines 180-250
create_velocity_message(icao_hex, speed_knots, heading, vertical_rate) ==
    LET icao == icao_to_int(icao_hex)
    IN  IF ~icao.ok THEN Raise("ValueError")
        ELSE frame_of(header(icao.val)
                      \o velocity_payload(speed_knots, heading, vertical_rate))

(***************************************************************************)
(* Aircraft generation and movement (lines 252-330)                        *)
(***************************************************************************)
\* lines 9-10, 438-439: the default centre (--lat, --long), Augusta
DefaultArgs == [lat |-> 333699, long |-> -819645]

\* lines 252-292: the aircraft generate_aircraft can return, for the draws of
\* the model.  last_update is not kept: the time elapsed between two updates
\* is an input of the update.  Speeds are multiples of 25 knots and headings
\* 90 or 270, for which lines 302-319 are exact on the grid.
generate_aircraft(args) ==
    LET kinds ==
            {[alts |-> {25000, 30000, 35000, 38000}, speed |-> 500,
              climbs |-> {-500, -300, 0, 300, 500}],
             [alts |-> {3500, 7500, 10000, 15000}, speed |-> 250,
              climbs |-> {-300, -100, 0, 100, 300}],
             [alts |-> {5000, 15000, 25000, 35000}, speed |-> 400,
              climbs |-> {-800, -400, 0, 400, 800}]}
        offsets == {[lat |-> 3000, lon |-> -4000]}
    IN  UNION {{[icao |-> IcaoStr(<<"A", "B", "C", "D", "E", "F">>),
                 alt |-> Feet(a),
                 speed |-> k.speed,
                 heading |-> h,
                 climb_rate |-> c,
                 lat |-> args.lat + o.lat,
                 lon |-> args.long + o.lon,
                 odd_frame |-> FALSE] :
                   a \in k.alts, c \in k.climbs, h \in {90, 270}, o \in offsets} :
               k \in kinds}

\* an update that leaves the altitude unclamped
update_aircraft_position_unclamped(aircraft, elapsed) ==
    LET \* speed * 0.000008 * elapsed degrees, in grid units
        speed_deg_per_sec == (aircraft.speed * 8 * elapsed) \div 100
        \* math.radians(90 - heading) is 0 or -pi
        cos_h == IF aircraft.heading = 90 THEN 1 ELSE -1
        lat_change == speed_deg_per_sec * cos_h
        \* sin is 0.0 or about -1.2e-16: the quotient by cos(lat) is far below
        \* the spacing of the doubles around lon, which the sum leaves unchanged
        lon_change == 0
        alt == aircraft.alt + (aircraft.climb_rate * elapsed) \div 10
    IN  [aircraft EXCEPT !.lat = @ + lat_change,
                         !.lon = @ + lon_change,
                         !.alt = alt,
                         !.odd_frame = ~@]

\* lines 294-330, elapsed in whole seconds
update_aircraft_position(aircraft, elapsed) ==
    LET \* speed * 0.000008 * elapsed degrees, in grid units
        speed_deg_per_sec == (aircraft.speed * 8 * elapsed) \div 100
        \* math.radians(90 - heading) is 0 or -pi
        cos_h == IF aircraft.heading = 90 THEN 1 ELSE -1
        lat_change == speed_deg_per_sec * cos_h
        \* sin is 0.0 or about -1.2e-16: the quotient by cos(lat) is far below
        \* the spacing of the doubles around lon, which the sum leaves unchanged
        lon_change == 0
        alt == aircraft.alt + (aircraft.climb_rate * elapsed) \div 10
    IN  [aircraft EXCEPT !.lat = @ + lat_change,
                         !.lon = @ + lon_change,
                         !.alt = Max(Feet(1000), Min(Feet(45000), alt)),
                         !.odd_frame = ~@]

\* lines 403-405: sqrt(dlat^2 + dlon^2) > 1.0
too_far(aircraft, args) ==
    LET dlat == Abs(aircraft.lat - args.lat)
        dlon == Abs(aircraft.lon - args.long)
    IN  \/ dlat > Deg(1)
        \/ dlon > Deg(1)
        \/ dlat * dlat + dlon * dlon > Deg(1) * Deg(1)

(***************************************************************************)
(* State                                                                   *)
(***************************************************************************)
VARIABLES
    pc,      \* where the encoder is: idle, norm_lo / norm_hi (the tests of the
             \* two while loops of encode_cpr_position), norm_lo_body /
             \* norm_hi_body (their bodies), encode (line 91 on), returned,
             \* raised
    call,    \* the function called and its arguments
    lat,     \* encode_cpr_position: lat after line 83
    lon,     \* encode_cpr_position: lon
    ret,     \* the result of the call
    ac,      \* send_position_reports: the entry of aircraft_list being reported
    spc,     \* send_position_reports: where the loop body is (off: not running)
    cycles,  \* update cycles made
    out,     \* even_message, odd_message, velocity_message, lines written
    args     \* the command line's centre (--lat, --long)

vars == <<pc, call, lat, lon, ret, ac, spc, cycles, out, args>>

NoCall == [fn |-> "none", icao |-> IcaoInt(0), lat |-> Lat(0), lon |-> Lon(0),
           alt |-> 0, is_odd |-> FALSE, speed |-> 0, heading |-> 0, vr |-> 0,
           data |-> <<>>]
NoAircraft == [icao |-> IcaoInt(0), alt |-> 0, speed |-> 0, heading |-> 0,
               climb_rate |-> 0, lat |-> 0, lon |-> 0, odd_frame |-> FALSE]
NoOut == [even |-> <<>>, odd |-> <<>>, vel |-> <<>>, sent |-> <<>>]

(***************************************************************************)
(* Inputs                                                                  *)
(***************************************************************************)
MaxCrcLen == 2
MaxWraps == 1
MaxCycles == 2

\* the first 11 bytes of 8D4840D6202CC371C32CE0576098
RefPayload == <<141, 72, 64, 214, 32, 44, 195, 113, 195, 44, 224>>

RECURSIVE SeqsUpTo(_, _)
SeqsUpTo(S, n) ==
    IF n = 0 THEN {<<>>}
    ELSE LET shorter == SeqsUpTo(S, n - 1)
         IN  shorter \cup {Append(q, b) : q \in shorter, b \in S}

CrcInputs == SeqsUpTo({0, 141, 255}, MaxCrcLen) \cup {RefPayload}

IcaoInputs ==
    {IcaoStr(<<"A", "B", "C", "D", "E", "F">>),
     IcaoStr(<<"0", "0", "0", "0", "0", "a">>),
     IcaoStr(<<" ", "0", "x", "_", "A", "_", "B">>),
     IcaoStr(<<"1", "A", "B", "C", "D", "E", "F">>),
     IcaoStr(<<"-", "1">>),
     IcaoStr(<<"G", "0", "0", "0", "0", "0">>),
     IcaoStr(<<>>),
     IcaoInt(11259375),
     IcaoInt(0)}

\* in 1/6 ft: 10000 ft, the ties 12.5, 37.5, -12.5, -37.5 ft and their
\* neighbours, -25 ft, 51175 and 51200 ft (n = 2047 and 2048), 45000 ft
AltInputs ==
    {Feet(10000), 0, 74, 75, 76, 225, -75, -225, Feet(-25), Feet(51175),
     Feet(51200), Feet(45000), Feet(-51225), Feet(1000) + 10}

LatInputs ==
    {Lat(v) : v \in {0, 1, -1, 333699, -450000, 104704, 104705, 869999, Deg(87),
                     Deg(87) + 1, -Deg(87), Deg(90), -Deg(90), Deg(95), -Deg(100)}}
    \cup {[v |-> Deg(87), u |-> -1], [v |-> Deg(87), u |-> 1],
          [v |-> -Deg(87), u |-> 1], [v |-> -Deg(87), u |-> -1]}

LonInputs ==
    {Lon(v + k * Deg(360)) :
        v \in {0, -819645, Deg(180) - 1, -Deg(180), Deg(180), Deg(90)},
        k \in -MaxWraps..MaxWraps}
    \cup {[v |-> 1, exp |-> 63], [v |-> -1, exp |-> 63]}

PosLatInputs == {Lat(333699), Lat(-Deg(90)), [v |-> Deg(87), u |-> -1]}
PosLonInputs == {Lon(-819645), Lon(Deg(180) + MaxWraps * Deg(360)), Lon(-Deg(180) - 1)}
PosAltInputs == {Feet(10000), 75, Feet(-25), Feet(51200)}

SpeedInputs == {0, 450, 1023, 1500, -300}
HeadingInputs == {0, 30, 90, 135, 180, 225, 270}
VrInputs == {0, 64, -63, -64, 32704, 40000, -40000}

ElapsedInputs == {1, 900}

\* centres: the default, and two next to the antimeridian, where the
\* longitude of an aircraft leaves [-180, 180)
ArgsInputs ==
    {DefaultArgs,
     [lat |-> 333699, long |-> Deg(180) + 5000],
     [lat |-> 333699, long |-> -Deg(180) + 2000]}

(***************************************************************************)
(* Calls of the encoder's functions with arbitrary arguments               *)
(***************************************************************************)
Init ==
    /\ pc = "idle"
    /\ call = NoCall
    /\ lat = Lat(0)
    /\ lon = Lon(0)
    /\ ret = NoRet
    /\ ac = NoAircraft
    /\ spc = "off"
    /\ cycles = 0
    /\ out = NoOut
    /\ args = DefaultArgs

\* crc24(data)
CallCrc24 ==
    /\ pc = "idle" /\ spc = "off"
    /\ \E data \in CrcInputs :
          /\ call' = [NoCall EXCEPT !.fn = "crc24", !.data = data]
          /\ ret' = [NoRet EXCEPT !.val = crc24(data)]
    /\ pc' = "returned"
    /\ UNCHANGED <<lat, lon, ac, spc, cycles, out, args>>

\* encode_altitude(altitude_ft)
CallEncodeAltitude ==
    /\ pc = "idle" /\ spc = "off"
    /\ \E a \in AltInputs :
          /\ call' = [NoCall EXCEPT !.fn = "encode_altitude", !.alt = a]
          /\ ret' = [NoRet EXCEPT !.val = encode_altitude(a)]
    /\ pc' = "returned"
    /\ UNCHANGED <<lat, lon, ac, spc, cycles, out, args>>

\* encode_cpr_position(lat, lon, is_odd) up to the first while (lines 82-86)
CallEncodeCpr ==
    /\ pc = "idle" /\ spc = "off"
    /\ \E la \in LatInputs, lo \in LonInputs, odd \in BOOLEAN :
          /\ call' = [NoCall EXCEPT !.fn = "encode_cpr_position",
                                    !.lat = la, !.lon = lo, !.is_odd = odd]
          /\ lat' = clamp_lat(la)
          /\ lon' = lo
    /\ pc' = "norm_lo"
    /\ ret' = NoRet
    /\ UNCHANGED <<ac, spc, cycles, out, args>>

\* create_airborne_position_message up to the first while of the
\* encode_cpr_position it calls (lines 133-157, 82-86): int(icao_hex, 16)
\* raises ValueError before the buffer is made
StartPosition(c) ==
    /\ call' = c
    /\ IF icao_to_int(c.icao).ok
       THEN /\ lat' = clamp_lat(c.lat)
            /\ lon' = c.lon
            /\ pc' = "norm_lo"
            /\ ret' = NoRet
       ELSE /\ pc' = "raised"
            /\ ret' = Raise("ValueError")
            /\ UNCHANGED <<lat, lon>>

CallPosition ==
    /\ pc = "idle" /\ spc = "off"
    /\ \E ic \in IcaoInputs, la \in PosLatInputs, lo \in PosLonInputs,
          al \in PosAltInputs, odd \in BOOLEAN :
          StartPosition([NoCall EXCEPT !.fn = "create_airborne_position_message",
                                       !.icao = ic, !.lat = la, !.lon = lo,
                                       !.alt = al, !.is_odd = odd])
    /\ UNCHANGED <<ac, spc, cycles, out, args>>

\* create_velocity_message(icao_hex, speed_knots, heading, vertical_rate)
StartVelocity(c) ==
    /\ call' = c
    /\ ret' = create_velocity_message(c.icao, c.speed, c.heading, c.vr)
    /\ pc' = IF ret'.err = "none" THEN "returned" ELSE "raised"

CallVelocity ==
    /\ pc = "idle" /\ spc = "off"
    /\ \E ic \in IcaoInputs, sp \in SpeedInputs, h \in HeadingInputs, vr \in VrInputs :
          StartVelocity([NoCall EXCEPT !.fn = "create_velocity_message",
                                       !.icao = ic, !.speed = sp, !.heading = h,
                                       !.vr = vr])
    /\ UNCHANGED <<lat, lon, ac, spc, cycles, out, args>>

\* line 86: the test of  while lon < -180  holds, the body is entered
NormLoIter ==
    /\ pc = "norm_lo"
    /\ LonLt(lon, -180)
    /\ pc' = "norm_lo_body"
    /\ UNCHANGED <<call, lat, lon, ret, ac, spc, cycles, out, args>>

\* line 87: lon += 360, and back to the test
NormLoBody ==
    /\ pc = "norm_lo_body"
    /\ lon' = FloatAdd(lon, 360)
    /\ pc' = "norm_lo"
    /\ UNCHANGED <<call, lat, ret, ac, spc, cycles, out, args>>

\* line 86: the first loop ends
NormLoExit ==
    /\ pc = "norm_lo"
    /\ ~LonLt(lon, -180)
    /\ pc' = "norm_hi"
    /\ UNCHANGED <<call, lat, lon, ret, ac, spc, cycles, out, args>>

\* line 88: the test of  while lon >= 180  holds, the body is entered
NormHiIter ==
    /\ pc = "norm_hi"
    /\ LonGe(lon, 180)
    /\ pc' = "norm_hi_body"
    /\ UNCHANGED <<call, lat, lon, ret, ac, spc, cycles, out, args>>

\* line 89: lon -= 360, and back to the test
NormHiBody ==
    /\ pc = "norm_hi_body"
    /\ lon' = FloatAdd(lon, -360)
    /\ pc' = "norm_hi"
    /\ UNCHANGED <<call, lat, ret, ac, spc, cycles, out, args>>

\* line 88: the second loop ends
NormHiExit ==
    /\ pc = "norm_hi"
    /\ ~LonGe(lon, 180)
    /\ pc' = "encode"
    /\ UNCHANGED <<call, lat, lon, ret, ac, spc, cycles, out, args>>

\* lines 91-109, and for a position message lines 159-178
CprReturn ==
    /\ pc = "encode"
    /\ \E c \in cpr_encode(lat, lon, call.is_odd) :
          ret' = IF c.err # "none" THEN Raise(c.err)
                 ELSE IF call.fn = "encode_cpr_position"
                      THEN [NoRet EXCEPT !.lat_cpr = c.lat_cpr, !.lon_cpr = c.lon_cpr]
                 ELSE position_frame(icao_to_int(call.icao).val, call.alt, c,
                                     call.is_odd)
    /\ pc' = IF ret'.err = "none" THEN "returned" ELSE "raised"
    /\ UNCHANGED <<call, lat, lon, ac, spc, cycles, out, args>>

\* the caller takes the result
Return ==
    /\ pc \in {"returned", "raised"} /\ spc = "off"
    /\ pc' = "idle"
    /\ call' = NoCall
    /\ ret' = NoRet
    /\ lat' = Lat(0)
    /\ lon' = Lon(0)
    /\ UNCHANGED <<ac, spc, cycles, out, args>>

Normalise == NormLoIter \/ NormLoBody \/ NormLoExit \/ NormHiIter \/ NormHiBody \/ NormHiExit
Encoder == Normalise \/ CprReturn

Next ==
    \/ CallCrc24
    \/ CallEncodeAltitude
    \/ CallEncodeCpr
    \/ CallPosition
    \/ CallVelocity
    \/ Encoder
    \/ Return

Spec == Init /\ [][Next]_vars

\* a call that is in the normalisation loops keeps running
FairSpec == Spec /\ WF_vars(Normalise)

(***************************************************************************)
(* send_position_reports (lines 332-431), for one entry of aircraft_list:  *)
(* the entries do not interact.                                            *)
(***************************************************************************)
\* line 450: the list is filled by generate_aircraft
SimInit ==
    /\ pc = "idle"
    /\ call = NoCall
    /\ lat = Lat(0)
    /\ lon = Lon(0)
    /\ ret = NoRet
    /\ args \in ArgsInputs
    /\ ac \in generate_aircraft(args)
    /\ spc = "update"
    /\ cycles = 0
    /\ out = NoOut

\* lines 343-348
SimUpdate ==
    /\ spc = "update" /\ pc = "idle"
    /\ cycles < MaxCycles
    /\ \E elapsed \in ElapsedInputs : ac' = update_aircraft_position(ac, elapsed)
    /\ cycles' = cycles + 1
    /\ spc' = "even"
    /\ UNCHANGED <<pc, call, lat, lon, ret, out, args>>

PositionCall(is_odd) ==
    [NoCall EXCEPT !.fn = "create_airborne_position_message",
                   !.icao = ac.icao, !.lat = Lat(ac.lat), !.lon = Lon(ac.lon),
                   !.alt = ac.alt, !.is_odd = is_odd]

\* an exception of a message function leaves the loop through line 425 and the
\* socket is closed
Take(field, next) ==
    /\ pc \in {"returned", "raised"}
    /\ IF pc = "returned"
       THEN /\ out' = [out EXCEPT ![field] = ret.text]
            /\ spc' = next
       ELSE /\ spc' = "closed"
            /\ UNCHANGED out
    /\ pc' = "idle"
    /\ call' = NoCall
    /\ ret' = NoRet
    /\ lat' = Lat(0)
    /\ lon' = Lon(0)
    /\ UNCHANGED <<ac, cycles, args>>

\* lines 351-357
SimCallEven ==
    /\ spc = "even" /\ pc = "idle"
    /\ StartPosition(PositionCall(FALSE))
    /\ UNCHANGED <<ac, spc, cycles, out, args>>

SimTakeEven == spc = "even" /\ Take("even", "odd")

\* lines 359-365
SimCallOdd ==
    /\ spc = "odd" /\ pc = "idle"
    /\ StartPosition(PositionCall(TRUE))
    /\ UNCHANGED <<ac, spc, cycles, out, args>>

SimTakeOdd == spc = "odd" /\ Take("odd", "velocity")

\* lines 368-373
SimCallVelocity ==
    /\ spc = "velocity" /\ pc = "idle"
    /\ StartVelocity([NoCall EXCEPT !.fn = "create_velocity_message",
                                    !.icao = ac.icao, !.speed = ac.speed,
                                    !.heading = ac.heading, !.vr = ac.climb_rate])
    /\ UNCHANGED <<lat, lon, ac, spc, cycles, out, args>>

SimTakeVelocity == spc = "velocity" /\ Take("vel", "send")

\* lines 375-395: the three lines (message + "\n") are written in order; an
\* exception of sendall is caught and ends the writing of this aircraft's lines
SimSend ==
    /\ spc = "send"
    /\ \E n \in 0..3 :
          out' = [out EXCEPT !.sent = SubSeq(<<out.even \o <<"\n">>,
                                               out.odd \o <<"\n">>,
                                               out.vel \o <<"\n">>>>, 1, n)]
    /\ spc' = "check"
    /\ UNCHANGED <<pc, call, lat, lon, ret, ac, cycles, args>>

\* lines 401-408: the entry is replaced when it is too far from the centre
SimCheck ==
    /\ spc = "check"
    /\ IF too_far(ac, args) THEN ac' \in generate_aircraft(args) ELSE ac' = ac
    /\ spc' = "churn"
    /\ out' = NoOut
    /\ UNCHANGED <<pc, call, lat, lon, ret, cycles, args>>

\* lines 411-418: now and then an aircraft is appended or popped, so the entry
\* may hold a newly generated aircraft in the next cycle
SimChurn ==
    /\ spc = "churn"
    /\ ac' \in generate_aircraft(args)
    /\ spc' = "update"
    /\ UNCHANGED <<pc, call, lat, lon, ret, cycles, out, args>>

\* line 411: most cycles change nothing; line 421
SimSleep ==
    /\ spc = "churn"
    /\ spc' = "update"
    /\ UNCHANGED <<pc, call, lat, lon, ret, ac, cycles, out, args>>

SimNext ==
    \/ SimUpdate
    \/ SimCallEven
    \/ SimTakeEven
    \/ SimCallOdd
    \/ SimTakeOdd
    \/ SimCallVelocity
    \/ SimTakeVelocity
    \/ SimSend
    \/ SimCheck
    \/ SimChurn
    \/ SimSleep
    \/ Encoder

SimSpec == SimInit /\ [][SimNext]_vars

(***************************************************************************)
(* Properties                                                              *)
(***************************************************************************)
\* the 14 bytes an ASCII frame spells: two hexadecimal digits per byte after
\* the leading character
FrameBytes(text) == [i \in 1..14 |-> 16 * HexVal(text[2 * i]) + HexVal(text[2 * i + 1])]

PositionReturned == pc = "returned" /\ call.fn = "create_airborne_position_message"
VelocityReturned == pc = "returned" /\ call.fn = "create_velocity_message"
FrameReturned == PositionReturned \/ VelocityReturned

\* C1: in every frame returned by either builder the last 3 of the 14 bytes
\* are the big-endian 24-bit crc24 of the 11 bytes before them.
C1_CrcTrailer ==
    FrameReturned =>
        LET b == FrameBytes(ret.text)
        IN  /\ Len(ret.msg) = 14
            /\ b[12] * 65536 + b[13] * 256 + b[14] = crc24(SubSeq(b, 1, 11))
            /\ b[12] \in 0..255 /\ b[13] \in 0..255 /\ b[14] \in 0..255

C1_Witness ==
    /\ VelocityReturned
    /\ call.speed = 450 /\ call.heading = 135 /\ call.vr = -64
    /\ call.icao = IcaoInt(11259375)
    /\ FrameBytes(ret.text)[12] # FrameBytes(ret.text)[14]

\* C2: crc24 of the 11 bytes 8D 48 40 D6 20 2C C3 71 C3 2C E0 is 0x576098, the
\* trailer of the known-good frame; crc24 of the empty sequence is 0; every
\* result fits 24 bits.
C2_CrcReference ==
    (pc = "returned" /\ call.fn = "crc24") =>
        /\ ret.val \in 0..16777215
        /\ call.data = RefPayload => ret.val = 5726360
        /\ call.data = <<>> => ret.val = 0

C2_Witness ==
    pc = "returned" /\ call.fn = "crc24" /\ call.data = RefPayload /\ ret.val = 5726360

\* C3: in every position frame byte 0 is 0x8D, bytes 1-3 the ICAO address
\* big-endian, byte 4 is 0x58, and the altitude field, the Time bit (0), the
\* parity bit and the two 17-bit CPR indices are recovered bit-exactly from
\* bytes 5-10: the altitude field is encode_altitude(alt), the indices are
\* those encode_cpr_position computed with the same parity.
C3_PositionLayout ==
    PositionReturned =>
        LET b == FrameBytes(ret.text)
            lat_field == (b[7] % 4) * 32768 + b[8] * 128 + (b[9] \div 2)
            lon_field == (b[9] % 2) * 65536 + b[10] * 256 + b[11]
        IN  /\ b[1] = 141
            /\ b[2] * 65536 + b[3] * 256 + b[4] = icao_to_int(call.icao).val % 16777216
            /\ b[5] = 88
            /\ b[6] * 16 + (b[7] \div 16) = encode_altitude(call.alt)
            /\ (b[7] \div 8) % 2 = 0
            /\ (b[7] \div 4) % 2 = (IF call.is_odd THEN 1 ELSE 0)
            /\ lat_field = ret.lat_cpr
            /\ lon_field = ret.lon_cpr
            /\ \E c \in cpr_encode(lat, lon, call.is_odd) :
                  c.err = "none" /\ c.lat_cpr = lat_field /\ c.lon_cpr = lon_field

C3_Witness ==
    /\ PositionReturned
    /\ call.is_odd
    /\ call.icao = IcaoStr(<<"A", "B", "C", "D", "E", "F">>)
    /\ call.lat = Lat(333699) /\ call.lon = Lon(-819645) /\ call.alt = Feet(10000)
    /\ ret.lat_cpr >= 32768 /\ ret.lon_cpr >= 65536

\* C4: in every velocity frame byte 4 is 0x99, byte 5 is 0x01, byte 10 is 0;
\* each sign bit is 1 iff the component is negative; the magnitudes are
\* min(1023, trunc|ew|), min(1023, trunc|ns|), min(511, trunc(|vr| / 64)); the
\* six fields sit in disjoint bits of bytes 6-9 and are recovered unchanged.
C4_VelocityLayout ==
    VelocityReturned =>
        LET b == FrameBytes(ret.text)
            ew == east_west(call.speed, call.heading)
            ns == north_south(call.speed, call.heading)
        IN  /\ b[5] = 153 /\ b[6] = 1 /\ b[11] = 0
            /\ b[7] \div 128 = (IF ew.sgn < 0 THEN 1 ELSE 0)
            /\ (b[7] % 128) * 8 + (b[8] \div 32) = Min(1023, ew.int_abs)
            /\ (b[8] \div 16) % 2 = (IF ns.sgn < 0 THEN 1 ELSE 0)
            /\ (b[8] % 16) * 64 + (b[9] \div 4) = Min(1023, ns.int_abs)
            /\ (b[9] \div 2) % 2 = (IF call.vr < 0 THEN 1 ELSE 0)
            /\ (b[9] % 2) * 256 + b[10] = Min(511, Abs(call.vr) \div 64)

C4_Witness ==
    /\ VelocityReturned
    /\ call.speed = 1500 /\ call.heading = 225 /\ call.vr = -40000
    /\ FrameBytes(ret.text)[7] >= 128

\* C5: encode_cpr_position returns, for either parity, for any latitude in
\* [-90, 90] and any longitude, two integers in [0, 131071]: no call with such
\* a latitude ends in an exception.
C5_CprAlwaysInRange ==
    (/\ call.fn = "encode_cpr_position"
     /\ pc \in {"returned", "raised"}
     /\ ~LatGt(call.lat, 90) /\ ~LatLt(call.lat, -90)) =>
        /\ pc = "returned"
        /\ ret.lat_cpr \in 0..131071
        /\ ret.lon_cpr \in 0..131071

\* C6: encode_altitude returns (n & 0x7FF) | 0x800 with n the altitude rounded
\* to the nearest multiple of 25 ft, divided by 25: the result is in
\* [0x800, 0xFFF], encode_altitude(10000) = 400 | 0x800, and n outside
\* [0, 2047] wraps modulo 2048.
C6_AltitudeField ==
    (pc = "returned" /\ call.fn = "encode_altitude") =>
        LET q == call.alt \div Feet(25)
        IN  /\ ret.val \in 2048..4095
            /\ \E n \in {q, q + 1} :
                  /\ 2 * Abs(call.alt - n * Feet(25)) <= Feet(25)
                  /\ ret.val = 2048 + (n % 2048)
            /\ call.alt = Feet(10000) => ret.val = 400 + 2048

C6_Witness ==
    /\ pc = "returned" /\ call.fn = "encode_altitude"
    /\ call.alt = Feet(-25) /\ ret.val = 4095

UpperHexChars == {UpperHex[i] : i \in 1..16}

FrameShape(text, n) ==
    /\ Len(text) = n
    /\ text[1] = "*"
    /\ text[Len(text)] = ";"
    /\ \A i \in 2..(Len(text) - 1) : text[i] \in UpperHexChars

\* C7 as stated: every ASCII frame has exactly 31 characters: '*', 28 uppercase
\* hexadecimal digits, ';'.
C7_FrameHas31Chars == FrameReturned => FrameShape(ret.text, 31)

\* C7 as amended: every ASCII frame has exactly 30 characters: '*', the 14 frame
\* bytes as 28 uppercase hexadecimal digits, two per byte, and ';'.
C7_FrameHas30Chars ==
    FrameReturned =>
        /\ FrameShape(ret.text, 30)
        /\ FrameBytes(ret.text) = ret.msg

C7_Witness ==
    /\ PositionReturned
    /\ Len(ret.text) = 30
    /\ \E i \in 2..29 : ret.text[i] \in {"A", "B", "C", "D", "E", "F"}

\* C8: a string that is not a hexadecimal 24-bit address is rejected before the
\* message buffer is made: the call raises, and no frame is built from it.
C8_MalformedIcaoRejected ==
    (/\ call.fn \in {"create_airborne_position_message", "create_velocity_message"}
     /\ call.icao.isstr
     /\ ~(/\ ParseInt16(call.icao.s).ok
          /\ ParseInt16(call.icao.s).val \in 0..16777215)) =>
        pc = "raised" /\ ret.msg = <<>>

\* C9: the two normalisation loops terminate for every longitude; when they
\* have ended the longitude is in [-180, 180) and differs from the argument by
\* a multiple of 360, and the latitude is the argument clamped into [-90, 90].
C9_NormalisationTerminates ==
    /\ [](pc = "encode" =>
            /\ lon.exp = 0 /\ call.lon.exp = 0
            /\ lon.v >= -Deg(180) /\ lon.v < Deg(180)
            /\ (lon.v - call.lon.v) % Deg(360) = 0
            /\ lat = clamp_lat(call.lat))
    /\ (pc \in {"norm_lo", "norm_lo_body", "norm_hi", "norm_hi_body"}
           ~> pc = "encode")

\* the altitude field of the frame a line written to the socket spells
SentAltField(line) == FrameBytes(line)[6] * 16 + (FrameBytes(line)[7] \div 16)

\* C10: after any sequence of updates the altitude is in [1000, 45000] ft; the
\* altitude count of every position line written is in [40, 1800], and its
\* altitude field is the Q-bit plus the aircraft's altitude rounded to 25 ft
\* and divided by 25 (no wrap).
C10_AltitudeNeverWraps ==
    /\ spc # "off" => ac.alt >= Feet(1000) /\ ac.alt <= Feet(45000)
    /\ spc = "check" =>
          \A i \in 1..Min(2, Len(out.sent)) :
             LET n == SentAltField(out.sent[i]) - 2048
             IN  /\ n \in 40..1800
                 /\ 2 * Abs(ac.alt - n * Feet(25)) <= Feet(25)

C10_Witness ==
    /\ spc = "check"
    /\ Len(out.sent) = 3
    /\ ac.alt = Feet(45000)
    /\ SentAltField(out.sent[2]) = 2048 + 1800

============================================================================
